---- MODULE Spec2Model ----
(***************************************************************************)
(* The yearly-panel ETL of src/pipeline/etl_pipeline.py:                   *)
(*   validate -> standardize -> merge -> consolidate -> finalize           *)
(*            -> quality report -> data dictionary                         *)
(*                                                                         *)
(* A table is [cols, rows].  A column is [name, src, orig]: its current    *)
(* name, the source table it came from ("bs", "lev", "bc") and the name it *)
(* had there.  A row is [year, bs, lev, bc]: its year and, per source, the *)
(* number of the source row its cells come from (NoRow: the cells of that  *)
(* source are missing).  A CSV file holds its years as text, a data frame  *)
(* in memory holds them as integers.                                       *)
(***************************************************************************)
EXTENDS Integers, Sequences, FiniteSets, TLC

\* ---------------------------------------------------------------- bounds
\* Rows per input table, and runs of main in one behaviour.
MaxRows == 2
MaxRuns == 2

\* ------------------------------------------------------------------ text
Digits == {"0", "1", "2", "3", "4", "5", "6", "7", "8", "9"}

DigitVal(c) ==
    CASE c = "0" -> 0 [] c = "1" -> 1 [] c = "2" -> 2 [] c = "3" -> 3
      [] c = "4" -> 4 [] c = "5" -> 5 [] c = "6" -> 6 [] c = "7" -> 7
      [] c = "8" -> 8 [] c = "9" -> 9

DigitChar(d) == <<"0", "1", "2", "3", "4", "5", "6", "7", "8", "9">>[d + 1]

Front(s) == SubSeq(s, 1, Len(s) - 1)

Last(s) == s[Len(s)]

Range(s) == {s[i] : i \in 1..Len(s)}

SetMin(S) == CHOOSE x \in S : \A y \in S : x <= y

\* int(text) of a run of digits.
RECURSIVE IntOfText(_)
IntOfText(t) ==
    IF t = <<>> THEN 0 ELSE 10 * IntOfText(Front(t)) + DigitVal(Last(t))

\* str(n) of a non-negative integer, as to_csv writes it.
RECURSIVE TextOfInt(_)
TextOfInt(n) ==
    IF n < 10 THEN <<DigitChar(n)>>
    ELSE TextOfInt(n \div 10) \o <<DigitChar(n % 10)>>

\* pd.to_numeric(..., errors="coerce") gives a number for a cell that is a
\* run of digits and NaN for a blank or any other text.
IsNumericText(t) == Len(t) > 0 /\ \A i \in 1..Len(t) : t[i] \in Digits

\* The elements of s at the indices in keep, in the order of s.
RECURSIVE SelectIdx(_, _)
SelectIdx(s, keep) ==
    IF s = <<>> THEN <<>>
    ELSE SelectIdx(Front(s), keep) \o (IF Len(s) \in keep THEN <<Last(s)>> ELSE <<>>)

RECURSIVE Flatten(_)
Flatten(ss) == IF ss = <<>> THEN <<>> ELSE Flatten(Front(ss)) \o Last(ss)

\* --------------------------------------------------------------- parse_year
\* re.search(r"(19\d{2}|20\d{2})", s) matches at position i.
YearMatchAt(s, i) ==
    /\ i + 3 <= Len(s)
    /\ \/ s[i] = "1" /\ s[i + 1] = "9"
       \/ s[i] = "2" /\ s[i + 1] = "0"
    /\ s[i + 2] \in Digits
    /\ s[i + 3] \in Digits

\* parse_year that takes the last match instead of the first.
parse_year_last(value) ==
    IF value = <<>> THEN <<>>
    ELSE LET hits == {i \in 1..Len(value) : YearMatchAt(value, i)}
         IN  IF hits = {} THEN <<>>
             ELSE LET i == CHOOSE h \in hits : \A g \in hits : g <= h
                  IN  <<IntOfText(SubSeq(value, i, i + 3))>>

\* A missing label (NaN) is the empty text.  The result is <<>> for None and
\* <<y>> for the year y of the leftmost match.
parse_year(value) ==
    IF value = <<>> THEN <<>>
    ELSE LET hits == {i \in 1..Len(value) : YearMatchAt(value, i)}
         IN  IF hits = {} THEN <<>>
             ELSE LET i == SetMin(hits)
                  IN  <<IntOfText(SubSeq(value, i, i + 3))>>

\* ------------------------------------------------------------ data frames
NoRow == 0

Col(name, src) == [name |-> name, src |-> src, orig |-> name]

Names(cols) == [i \in 1..Len(cols) |-> cols[i].name]

HasCol(cols, name) == \E i \in 1..Len(cols) : cols[i].name = name

Row(year, src, id) ==
    [year |-> year,
     bs   |-> IF src = "bs" THEN id ELSE NoRow,
     lev  |-> IF src = "lev" THEN id ELSE NoRow,
     bc   |-> IF src = "bc" THEN id ELSE NoRow]

Years(rows) == {rows[i].year : i \in 1..Len(rows)}

UniqueYears(rows) ==
    \A i, j \in 1..Len(rows) : rows[i].year = rows[j].year => i = j

\* rows.rename(columns=map): map is a set of <<old, new>> pairs.
RenameCols(cols, map) ==
    [i \in 1..Len(cols) |->
        IF \E p \in map : p[1] = cols[i].name
        THEN [cols[i] EXCEPT !.name = (CHOOSE p \in map : p[1] = cols[i].name)[2]]
        ELSE cols[i]]

\* df[labels]: for each label in turn, every column of that name.
SelectCols(cols, labels) ==
    Flatten([k \in 1..Len(labels) |->
                SelectIdx(cols, {i \in 1..Len(cols) : cols[i].name = labels[k]})])

\* df.drop(columns=names)
DropCols(cols, names) ==
    SelectIdx(cols, {i \in 1..Len(cols) : cols[i].name \notin names})

\* sort_values("year") uses the default kind="quicksort", which is not a
\* stable sort: the order it leaves rows of one year in is fixed by the
\* build, not by the code.  tie names what the build does with them:
\* "stable" keeps their order, "reversed" turns it round.
InsertRow(sorted, r, tie) ==
    LET before == IF tie = "stable"
                  THEN {i \in 1..Len(sorted) : sorted[i].year <= r.year}
                  ELSE {i \in 1..Len(sorted) : sorted[i].year < r.year}
        k == Cardinality(before)
    IN  SubSeq(sorted, 1, k) \o <<r>> \o SubSeq(sorted, k + 1, Len(sorted))

RECURSIVE sort_values(_, _)
sort_values(rows, tie) ==
    IF rows = <<>> THEN <<>>
    ELSE InsertRow(sort_values(Front(rows), tie), Last(rows), tie)

\* df["year"].duplicated().any()
HasDuplicatedYear(rows) == ~UniqueYears(rows)

\* drop_duplicates("year", keep="first")
drop_duplicates(rows) ==
    SelectIdx(rows, {i \in 1..Len(rows) :
                        \A j \in 1..(i - 1) : rows[j].year # rows[i].year})

\* to_csv: the years are written as text.
ToCsv(df) ==
    [exists |-> TRUE,
     cols   |-> df.cols,
     rows   |-> [i \in 1..Len(df.rows) |->
                    [df.rows[i] EXCEPT !.year = TextOfInt(df.rows[i].year)]]]

NoFile == [exists |-> FALSE, cols |-> <<>>, rows |-> <<>>]

NoTable == [cols |-> <<>>, rows |-> <<>>]

\* ---------------------------------------------------------------- load_csv
load_csv(file, tie) ==
    IF ~file.exists THEN [err |-> "FileNotFoundError", df |-> NoTable]
    ELSE IF ~HasCol(file.cols, "year") THEN [err |-> "KeyError", df |-> NoTable]
    ELSE LET numeric == SelectIdx(file.rows,
                            {i \in 1..Len(file.rows) : IsNumericText(file.rows[i].year)})
             asint   == [i \in 1..Len(numeric) |->
                            [numeric[i] EXCEPT !.year = IntOfText(numeric[i].year)]]
             rows    == IF HasDuplicatedYear(asint)
                        THEN drop_duplicates(sort_values(asint, tie))
                        ELSE asint
         IN  [err |-> "none", df |-> [cols |-> file.cols, rows |-> rows]]

\* ------------------------------------------------------------------- merge
\* left.merge(right, on="year", how="left", suffixes=("", suffix)): the left
\* columns keep their names, a right column whose name a left column has
\* gets the suffix; every left row is kept, in the left order, once per
\* right row of its year, or once with the right cells missing.
JoinRow(l, r) ==
    [year |-> l.year,
     bs   |-> IF l.bs # NoRow THEN l.bs ELSE r.bs,
     lev  |-> IF l.lev # NoRow THEN l.lev ELSE r.lev,
     bc   |-> IF l.bc # NoRow THEN l.bc ELSE r.bc]

\* The merge with how="inner": a left row without a right row is dropped.
MergeLeft_inner(left, right, suffix) ==
    LET lnames  == Range(Names(left.cols)) \ {"year"}
        rkeep   == SelectIdx(right.cols,
                       {i \in 1..Len(right.cols) : right.cols[i].name # "year"})
        rcols   == [i \in 1..Len(rkeep) |->
                       IF rkeep[i].name \in lnames
                       THEN [rkeep[i] EXCEPT !.name = rkeep[i].name \o suffix]
                       ELSE rkeep[i]]
        match(l) == SelectIdx(right.rows,
                       {j \in 1..Len(right.rows) : right.rows[j].year = l.year})
        joined(l) == [j \in 1..Len(match(l)) |-> JoinRow(l, match(l)[j])]
    IN  [cols |-> left.cols \o rcols,
         rows |-> Flatten([i \in 1..Len(left.rows) |-> joined(left.rows[i])])]

MergeLeft(left, right, suffix) ==
    LET lnames  == Range(Names(left.cols)) \ {"year"}
        rkeep   == SelectIdx(right.cols,
                       {i \in 1..Len(right.cols) : right.cols[i].name # "year"})
        rcols   == [i \in 1..Len(rkeep) |->
                       IF rkeep[i].name \in lnames
                       THEN [rkeep[i] EXCEPT !.name = rkeep[i].name \o suffix]
                       ELSE rkeep[i]]
        match(l) == SelectIdx(right.rows,
                       {j \in 1..Len(right.rows) : right.rows[j].year = l.year})
        joined(l) == IF match(l) = <<>> THEN <<l>>
                     ELSE [j \in 1..Len(match(l)) |-> JoinRow(l, match(l)[j])]
    IN  [cols |-> left.cols \o rcols,
         rows |-> Flatten([i \in 1..Len(left.rows) |-> joined(left.rows[i])])]

\* ------------------------------------------------------------------ config
\* FILES, in the order the dict is iterated.
Datasets == <<"Business Cycle Link", "Leverage Analysis", "Balance Sheet Analysis">>

SUMMARY_CSV == "data_validation_summary.csv"
REPORT_MD == "data_validation_report.md"
BC_CSV == "business_cycle_standardized.csv"
LEV_CSV == "leverage_standardized.csv"
BS_CSV == "balance_sheet_standardized.csv"
MASTER_CSV == "master_panel.csv"
CONSOLIDATED_CSV == "consolidated_panel.csv"
FINAL_CSV == "final_panel.csv"
QUALITY_MD == "final_panel_quality.md"
DICTIONARY_CSV == "data_dictionary.csv"

\* The files under outputs/ and those of them under outputs/processed.
OutFiles ==
    {SUMMARY_CSV, REPORT_MD, BC_CSV, LEV_CSV, BS_CSV, MASTER_CSV,
     CONSOLIDATED_CSV, FINAL_CSV, QUALITY_MD, DICTIONARY_CSV}

ProcFiles == OutFiles \ {SUMMARY_CSV, REPORT_MD}

\* -------------------------------------------------------------- validation
\* An input spreadsheet is [status, cols, rows]: status "missing" (the path
\* does not exist), "unreadable" (it exists and pd.ExcelFile raises on it) or
\* "ok"; cols are its cleaned column names; rows are the cells of its period
\* column (balance sheet) or of its year column (the other two), as text.
\* The loop of run_validation after its first n datasets.
RECURSIVE ValidateUpTo(_, _)
ValidateUpTo(sh, n) ==
    IF n = 0 THEN [raised |-> FALSE, rows |-> <<>>, inspected |-> <<>>]
    ELSE LET prev == ValidateUpTo(sh, n - 1)
             name == Datasets[n]
         IN  IF prev.raised THEN prev
             ELSE IF sh[name].status = "missing"
             THEN [prev EXCEPT !.rows = Append(@, [dataset |-> name, status |-> "MISSING"])]
             ELSE IF sh[name].status = "unreadable"
             THEN [prev EXCEPT !.raised = TRUE, !.inspected = Append(@, name)]
             ELSE [prev EXCEPT !.rows = Append(@, [dataset |-> name, status |-> "OK"]),
                               !.inspected = Append(@, name)]

\* run_validation with break for continue: it stops at the first missing file.
RECURSIVE ValidateUntilMissing(_, _)
ValidateUntilMissing(sh, n) ==
    IF n = 0 THEN [raised |-> FALSE, rows |-> <<>>, inspected |-> <<>>, stop |-> FALSE]
    ELSE LET prev == ValidateUntilMissing(sh, n - 1)
             name == Datasets[n]
         IN  IF prev.raised \/ prev.stop THEN prev
             ELSE IF sh[name].status = "missing"
             THEN [prev EXCEPT !.rows = Append(@, [dataset |-> name, status |-> "MISSING"]),
                               !.stop = TRUE]
             ELSE IF sh[name].status = "unreadable"
             THEN [prev EXCEPT !.raised = TRUE, !.inspected = Append(@, name)]
             ELSE [prev EXCEPT !.rows = Append(@, [dataset |-> name, status |-> "OK"]),
                               !.inspected = Append(@, name)]

run_validation_break(sh) == ValidateUntilMissing(sh, Len(Datasets))

run_validation(sh) == ValidateUpTo(sh, Len(Datasets))

\* The check for missing inputs looking at the first dataset only.
MissingInputs_first(sh) ==
    IF sh[Datasets[1]].status = "missing" THEN <<Datasets[1]>> ELSE <<>>

\* missing = [name for name, p in FILES.items() if not p.exists()]
MissingInputs(sh) ==
    SelectIdx(Datasets, {i \in 1..Len(Datasets) : sh[Datasets[i]].status = "missing"})

\* ------------------------------------------------------------- standardize
BcRenameMap ==
    {<<"year", "year">>, <<"gdp", "gdp_level">>, <<"log_gdp", "gdp_log">>,
     <<"log_gdp_growth", "gdp_log_growth">>, <<"bank_credit", "bank_credit_level">>,
     <<"log_bank_credit", "bank_credit_log">>,
     <<"log_credit_growth", "bank_credit_log_growth">>}

BcKeep ==
    <<"year", "gdp_level", "gdp_log", "gdp_log_growth", "bank_credit_level",
      "bank_credit_log", "bank_credit_log_growth">>

LevRenameMap ==
    {<<"repos", "repos_level">>, <<"repos_growth", "repos_growth">>,
     <<"deposits_level", "deposits_level">>, <<"deposits_growth", "deposits_growth">>,
     <<"loan_to_nominal_gdp", "loan_to_nominal_gdp">>,
     <<"credit_to_deposit_ratio", "credit_to_deposit_ratio">>}

TypoFixes ==
    {<<"capital_requiremnt", "capital_requirement">>,
     <<"capital_surplus_ration_growth", "capital_surplus_ratio_growth">>,
     <<"capital_surplus_ration", "capital_surplus_ratio">>,
     <<"leverage_ratiotrc_ta", "leverage_ratio_trc_to_ta">>}

SheetCols(sheet, src) == [i \in 1..Len(sheet.cols) |-> Col(sheet.cols[i], src)]

\* The rows of a sheet whose year column holds its cells: astype(int) raises
\* on a cell that is no number.
YearRows(sheet, src) ==
    [i \in 1..Len(sheet.rows) |-> Row(IntOfText(sheet.rows[i]), src, i)]

AllNumeric(sheet) == \A i \in 1..Len(sheet.rows) : IsNumericText(sheet.rows[i])

standardize_business_cycle(sheet, tie) ==
    LET cols == RenameCols(SheetCols(sheet, "bc"), BcRenameMap)
    IN  IF ~HasCol(cols, "year") THEN [err |-> "KeyError", df |-> NoTable]
        ELSE IF ~AllNumeric(sheet) THEN [err |-> "ValueError", df |-> NoTable]
        ELSE IF \E k \in 1..Len(BcKeep) : ~HasCol(cols, BcKeep[k])
        THEN [err |-> "KeyError", df |-> NoTable]
        ELSE [err |-> "none",
              df  |-> [cols |-> SelectCols(cols, BcKeep),
                       rows |-> sort_values(YearRows(sheet, "bc"), tie)]]

standardize_leverage(sheet, tie) ==
    LET cols0 == SheetCols(sheet, "lev")
        cols1 == IF HasCol(cols0, "years")
                 THEN RenameCols(cols0, {<<"years", "year">>}) ELSE cols0
    IN  IF ~HasCol(cols1, "year") THEN [err |-> "KeyError", df |-> NoTable]
        ELSE IF ~AllNumeric(sheet) THEN [err |-> "ValueError", df |-> NoTable]
        ELSE [err |-> "none",
              df  |-> [cols |-> RenameCols(cols1, LevRenameMap),
                       rows |-> sort_values(YearRows(sheet, "lev"), tie)]]

standardize_balance_sheet(sheet, tie) ==
    LET cols0  == SheetCols(sheet, "bs")
        year(i) == IF HasCol(cols0, "period") THEN parse_year(sheet.rows[i]) ELSE <<>>
        cols1  == IF HasCol(cols0, "year") THEN cols0 ELSE Append(cols0, Col("year", "bs"))
        kept   == SelectIdx([i \in 1..Len(sheet.rows) |-> i],
                            {i \in 1..Len(sheet.rows) : year(i) # <<>>})
        rows   == [k \in 1..Len(kept) |-> Row(year(kept[k])[1], "bs", kept[k])]
    IN  [err |-> "none",
         df  |-> [cols |-> RenameCols(cols1, TypoFixes),
                  rows |-> sort_values(rows, tie)]]

\* write_standardized that leaves the leverage file as it is.
write_standardized_skip(files, bc, lev, bs) ==
    [files EXCEPT ![BC_CSV] = ToCsv(bc), ![BS_CSV] = ToCsv(bs)]

\* The files under outputs/ after write_standardized(bc, lev, bs).
write_standardized(files, bc, lev, bs) ==
    [files EXCEPT ![BC_CSV] = ToCsv(bc), ![LEV_CSV] = ToCsv(lev), ![BS_CSV] = ToCsv(bs)]

\* ------------------------------------------------------ merge_master_panel
\* merge_master_panel that goes on with an empty table when the business-cycle
\* file cannot be loaded.
merge_master_panel_lenient(files, tie) ==
    LET bs  == load_csv(files[BS_CSV], tie)
        lev == load_csv(files[LEV_CSV], tie)
        bc  == load_csv(files[BC_CSV], tie)
    IN  IF bs.err # "none" THEN [err |-> bs.err, df |-> NoTable]
        ELSE IF lev.err # "none" THEN [err |-> lev.err, df |-> NoTable]
        ELSE LET m1 == MergeLeft(bs.df, lev.df, "_lev")
                 m2 == MergeLeft(m1, bc.df, "_bc")
             IN  [err |-> "none",
                  df  |-> [cols |-> m2.cols, rows |-> sort_values(m2.rows, tie)]]

merge_master_panel(files, tie) ==
    LET bs  == load_csv(files[BS_CSV], tie)
        lev == load_csv(files[LEV_CSV], tie)
        bc  == load_csv(files[BC_CSV], tie)
    IN  IF bs.err # "none" THEN [err |-> bs.err, df |-> NoTable]
        ELSE IF lev.err # "none" THEN [err |-> lev.err, df |-> NoTable]
        ELSE IF bc.err # "none" THEN [err |-> bc.err, df |-> NoTable]
        ELSE LET m1 == MergeLeft(bs.df, lev.df, "_lev")
                 m2 == MergeLeft(m1, bc.df, "_bc")
             IN  [err |-> "none",
                  df  |-> [cols |-> m2.cols, rows |-> sort_values(m2.rows, tie)]]

\* ------------------------------------------------ build_consolidated_panel
DropList ==
    {"gdp_level", "gdp_level_bc", "gdp_growth", "gdp_log", "gdp_log_growth",
     "gdp_level_consolidated",
     "bank_credit_lev", "bank_credit_growth", "bank_credit_level",
     "bank_credit_log", "bank_credit_log_growth",
     "bank_credit_level_consolidated", "bank_credit_log_consolidated",
     "bank_credit_log_growth_consolidated", "bank_credit_growth_consolidated"}

FrontList ==
    <<"year", "period_label", "nominal_gdp", "log_nominal_gdp", "nominal_gdp_growth",
      "bank_credit", "log_bank_credit", "log_bank_credit_growth">>

\* df[front + rest]
Reorder(cols, frontlist) ==
    LET front == SelectIdx(frontlist,
                     {k \in 1..Len(frontlist) : HasCol(cols, frontlist[k])})
        names == Names(cols)
        rest  == SelectIdx(names, {i \in 1..Len(names) : names[i] \notin Range(front)})
    IN  SelectCols(cols, front \o rest)

\* build_consolidated_panel without its reordering of the columns.
build_consolidated_panel_unordered(master, tie) ==
    LET renamed == IF HasCol(master.cols, "period")
                   THEN RenameCols(master.cols, {<<"period", "period_label">>})
                   ELSE master.cols
    IN  [cols |-> DropCols(renamed, DropList), rows |-> sort_values(master.rows, tie)]

build_consolidated_panel(master, tie) ==
    LET renamed == IF HasCol(master.cols, "period")
                   THEN RenameCols(master.cols, {<<"period", "period_label">>})
                   ELSE master.cols
        dropped == DropCols(renamed, DropList)
    IN  [cols |-> Reorder(dropped, FrontList), rows |-> sort_values(master.rows, tie)]

\* finalize_dataset without its check of year uniqueness.
finalize_dataset_unchecked(consolidated, tie) ==
    [err |-> "none",
     df  |-> [cols |-> Reorder(consolidated.cols, FrontList),
              rows |-> sort_values(consolidated.rows, tie)]]

\* --------------------------------------------------------- finalize_dataset
finalize_dataset(consolidated, tie) ==
    IF HasDuplicatedYear(consolidated.rows) THEN [err |-> "ValueError", df |-> NoTable]
    ELSE [err |-> "none",
          df  |-> [cols |-> Reorder(consolidated.cols, FrontList),
                   rows |-> sort_values(consolidated.rows, tie)]]

\* ----------------------------------------------------- write_quality_report
\* int(df["year"].min()) raises on a frame without rows (the minimum is NaN);
\* the year range is written only when no year is duplicated.
write_quality_report(df) ==
    IF ~HasDuplicatedYear(df.rows) /\ df.rows = <<>>
    THEN [err |-> "ValueError", file |-> NoFile]
    ELSE [err |-> "none",
          file |-> [exists |-> TRUE, cols |-> <<>>,
                    rows |-> <<[n_rows |-> Len(df.rows), n_cols |-> Len(df.cols)]>>]]

\* ---------------------------------------------------- write_data_dictionary
write_data_dictionary(df) ==
    [exists |-> TRUE, cols |-> <<"variable", "definition", "source", "unit", "notes">>,
     rows |-> Names(df.cols)]

\* -------------------------------------------------------------------- main
\* The order of the steps in main.
StepOrder ==
    <<"validate", "standardize", "merge", "consolidate", "finalize", "quality",
      "dictionary">>

\* main with the consolidate and finalize steps the other way round.
StepAfter_swapped(step) ==
    CASE step = "validate"    -> "hard_stop"
      [] step = "hard_stop"   -> "standardize"
      [] step = "standardize" -> "merge"
      [] step = "merge"       -> "finalize"
      [] step = "finalize"    -> "consolidate"
      [] step = "consolidate" -> "quality"
      [] step = "quality"     -> "dictionary"
      [] step = "dictionary"  -> "done"

StepAfter(step) ==
    CASE step = "validate"    -> "hard_stop"
      [] step = "hard_stop"   -> "standardize"
      [] step = "standardize" -> "merge"
      [] step = "merge"       -> "consolidate"
      [] step = "consolidate" -> "finalize"
      [] step = "finalize"    -> "quality"
      [] step = "quality"     -> "dictionary"
      [] step = "dictionary"  -> "done"

NoExc == [kind |-> "none", step |-> "none"]

VARIABLES
    sheets,        \* the three input spreadsheets, by dataset name
    tie,           \* what this build's quicksort does with rows of one year
    disk,          \* the files under outputs/
    diskAtStart,   \* disk as it was when this run started
    pc,            \* the step main is about to run
    ret,           \* "none" while main runs, "0" or "1" returned, "raise"
    exc,           \* the exception raised and the step that raised it
    steps,         \* the steps this run has entered, in order
    written,       \* the files this run has written, in order
    inspected,     \* the datasets run_validation called inspect_excel on
    master,        \* the data frames main holds
    consolidated,
    final_df,
    run,           \* the number of this run of main
    prev           \* how the run before ended

vars ==
    <<sheets, tie, disk, diskAtStart, pc, ret, exc, steps, written, inspected,
      master, consolidated, final_df, run, prev>>

inputs == <<sheets, tie, diskAtStart, run, prev>>

frames == <<master, consolidated, final_df>>

Raise(kind, step) ==
    /\ pc' = "done"
    /\ ret' = "raise"
    /\ exc' = [kind |-> kind, step |-> step]

\* 1) run_validation()
ValidateStep ==
    /\ pc = "validate"
    /\ steps' = Append(steps, "validate")
    /\ LET v == run_validation(sheets)
       IN  /\ inspected' = v.inspected
           /\ IF v.raised
              THEN /\ Raise("ExcelError", "validate")
                   /\ UNCHANGED <<disk, written>>
              ELSE /\ disk' = [disk EXCEPT
                          ![SUMMARY_CSV] = [exists |-> TRUE,
                                            cols |-> <<"dataset", "status", "path">>,
                                            rows |-> v.rows],
                          ![REPORT_MD] = [exists |-> TRUE, cols |-> <<>>, rows |-> v.rows]]
                   /\ written' = written \o <<SUMMARY_CSV, REPORT_MD>>
                   /\ pc' = StepAfter("validate")
                   /\ UNCHANGED <<ret, exc>>
    /\ UNCHANGED <<inputs, frames>>

\* Hard stop if any file missing
HardStop ==
    /\ pc = "hard_stop"
    /\ IF MissingInputs(sheets) # <<>>
       THEN /\ pc' = "done"
            /\ ret' = "1"
       ELSE /\ pc' = StepAfter("hard_stop")
            /\ UNCHANGED ret
    /\ UNCHANGED <<inputs, frames, disk, exc, steps, written, inspected>>

\* 2) the three standardize_* calls, then write_standardized.  read_excel
\* raises on a spreadsheet that is missing or cannot be read.
StandardizeStep ==
    /\ pc = "standardize"
    /\ steps' = Append(steps, "standardize")
    /\ LET unread == {i \in 1..Len(Datasets) : sheets[Datasets[i]].status # "ok"}
           bc  == standardize_business_cycle(sheets["Business Cycle Link"], tie)
           lev == standardize_leverage(sheets["Leverage Analysis"], tie)
           bs  == standardize_balance_sheet(sheets["Balance Sheet Analysis"], tie)
       IN  IF unread # {}
           THEN /\ Raise(IF sheets[Datasets[SetMin(unread)]].status = "missing"
                         THEN "FileNotFoundError" ELSE "ExcelError", "standardize")
                /\ UNCHANGED <<disk, written>>
           ELSE IF bc.err # "none"
           THEN Raise(bc.err, "standardize") /\ UNCHANGED <<disk, written>>
           ELSE IF lev.err # "none"
           THEN Raise(lev.err, "standardize") /\ UNCHANGED <<disk, written>>
           ELSE /\ disk' = write_standardized(disk, bc.df, lev.df, bs.df)
                /\ written' = written \o <<BC_CSV, LEV_CSV, BS_CSV>>
                /\ pc' = StepAfter("standardize")
                /\ UNCHANGED <<ret, exc>>
    /\ UNCHANGED <<inputs, frames, inspected>>

\* 3) merge_master_panel()
MergeStep ==
    /\ pc = "merge"
    /\ steps' = Append(steps, "merge")
    /\ LET m == merge_master_panel(disk, tie)
       IN  IF m.err # "none"
           THEN /\ Raise(m.err, "merge")
                /\ UNCHANGED <<disk, written, master>>
           ELSE /\ master' = m.df
                /\ disk' = [disk EXCEPT ![MASTER_CSV] = ToCsv(m.df)]
                /\ written' = Append(written, MASTER_CSV)
                /\ pc' = StepAfter("merge")
                /\ UNCHANGED <<ret, exc>>
    /\ UNCHANGED <<inputs, consolidated, final_df, inspected>>

\* 4) build_consolidated_panel(master)
ConsolidateStep ==
    /\ pc = "consolidate"
    /\ steps' = Append(steps, "consolidate")
    /\ consolidated' = build_consolidated_panel(master, tie)
    /\ disk' = [disk EXCEPT ![CONSOLIDATED_CSV] = ToCsv(consolidated')]
    /\ written' = Append(written, CONSOLIDATED_CSV)
    /\ pc' = StepAfter("consolidate")
    /\ UNCHANGED <<inputs, master, final_df, ret, exc, inspected>>

\* 5) finalize_dataset(consolidated)
FinalizeStep ==
    /\ pc = "finalize"
    /\ steps' = Append(steps, "finalize")
    /\ LET f == finalize_dataset(consolidated, tie)
       IN  IF f.err # "none"
           THEN /\ Raise(f.err, "finalize")
                /\ UNCHANGED <<disk, written, final_df>>
           ELSE /\ final_df' = f.df
                /\ disk' = [disk EXCEPT ![FINAL_CSV] = ToCsv(f.df)]
                /\ written' = Append(written, FINAL_CSV)
                /\ pc' = StepAfter("finalize")
                /\ UNCHANGED <<ret, exc>>
    /\ UNCHANGED <<inputs, master, consolidated, inspected>>

\* 6) write_quality_report(final_df)
QualityStep ==
    /\ pc = "quality"
    /\ steps' = Append(steps, "quality")
    /\ LET q == write_quality_report(final_df)
       IN  IF q.err # "none"
           THEN /\ Raise(q.err, "quality")
                /\ UNCHANGED <<disk, written>>
           ELSE /\ disk' = [disk EXCEPT ![QUALITY_MD] = q.file]
                /\ written' = Append(written, QUALITY_MD)
                /\ pc' = StepAfter("quality")
                /\ UNCHANGED <<ret, exc>>
    /\ UNCHANGED <<inputs, frames, inspected>>

\* 7) write_data_dictionary(final_df); return 0
DictionaryStep ==
    /\ pc = "dictionary"
    /\ steps' = Append(steps, "dictionary")
    /\ disk' = [disk EXCEPT ![DICTIONARY_CSV] = write_data_dictionary(final_df)]
    /\ written' = Append(written, DICTIONARY_CSV)
    /\ pc' = StepAfter("dictionary")
    /\ ret' = "0"
    /\ UNCHANGED <<inputs, frames, exc, inspected>>

\* ------------------------------------------------------------------ inputs
SeqsUpTo(S, n) == UNION {[1..k -> S] : k \in 0..n}

SubSeqs(pool) == {SelectIdx(pool, K) : K \in SUBSET (1..Len(pool))}

T2000 == <<"2", "0", "0", "0">>

T2001 == <<"2", "0", "0", "1">>

TText == <<"n", "/", "a">>

\* Cells of a period column: two labels with a year, one without, one blank.
PeriodLabels ==
    {<<"F", "Y", "2", "0", "0", "0">>, <<"2", "0", "0", "1", "-", "0", "2">>, TText, <<>>}

\* Cells of a year column of a spreadsheet, and of the year column of a
\* standardized CSV file (balance sheet and leverage; business cycle).
SheetYearCells == {T2000}

CsvYearCells == {T2000, T2001, TText}

BcCsvYearCells == {T2000}

BcSheetCols ==
    <<"year", "gdp", "log_gdp", "log_gdp_growth", "bank_credit", "log_bank_credit",
      "log_credit_growth">>

Sheet(status, cols, rows) == [status |-> status, cols |-> cols, rows |-> rows]

\* Spreadsheets that differ in whether they exist and can be read.
SheetsByStatus ==
    {[n \in Range(Datasets) |->
        IF st[n] = "ok"
        THEN Sheet("ok",
                   IF n = "Business Cycle Link" THEN BcSheetCols
                   ELSE IF n = "Leverage Analysis" THEN <<"years", "repos">>
                   ELSE <<"period", "nominal_gdp">>,
                   IF n = "Balance Sheet Analysis"
                   THEN <<<<"F", "Y", "2", "0", "0", "0">>>> ELSE <<T2000>>)
        ELSE Sheet(st[n], <<>>, <<>>)] :
     st \in [Range(Datasets) -> {"missing", "unreadable", "ok"}]}

\* Readable spreadsheets that differ in their columns, with one row each,
\* whose year cell is a number or a text.
SheetsByCols ==
    {[n \in Range(Datasets) |->
        IF n = "Business Cycle Link" THEN Sheet("ok", c[1], <<y[1]>>)
        ELSE IF n = "Leverage Analysis" THEN Sheet("ok", c[2], <<y[2]>>)
        ELSE Sheet("ok", c[3], <<<<"F", "Y", "2", "0", "0", "0">>>>)] :
     c \in {BcSheetCols, <<"year", "gdp">>, <<"gdp">>}
           \X {<<"years", "repos", "bank_credit">>, <<"year", "repos">>, <<"repos">>}
           \X {<<"period", "nominal_gdp", "bank_credit", "crar">>, <<"nominal_gdp", "crar">>},
     y \in {T2000, TText} \X {T2000, TText}}

\* Readable spreadsheets that differ in their rows.
SheetsByRows ==
    {[n \in Range(Datasets) |->
        IF n = "Business Cycle Link" THEN Sheet("ok", BcSheetCols, r[1])
        ELSE IF n = "Leverage Analysis"
        THEN Sheet("ok", <<"years", "repos", "bank_credit">>, r[2])
        ELSE Sheet("ok", <<"period", "nominal_gdp", "bank_credit", "crar">>, r[3])] :
     r \in SeqsUpTo(SheetYearCells, MaxRows)
           \X SeqsUpTo(SheetYearCells, MaxRows)
           \X SeqsUpTo(PeriodLabels, MaxRows)}

\* Whether two cells of a sequence of cells are equal.
Repeats(cells) == \E i, j \in 1..Len(cells) : i # j /\ cells[i] = cells[j]

\* What an earlier run may have left under outputs/: nothing, or every file.
StaleRows(src) == <<Row(<<"1", "9", "9", "9">>, src, MaxRows + 1)>>

EmptyDisk == [f \in OutFiles |-> NoFile]

StaleDisk ==
    [f \in OutFiles |->
        IF f = BC_CSV
        THEN [exists |-> TRUE, cols |-> <<Col("year", "bc"), Col("gdp_level", "bc")>>,
              rows |-> StaleRows("bc")]
        ELSE IF f = LEV_CSV
        THEN [exists |-> TRUE, cols |-> <<Col("year", "lev"), Col("repos_level", "lev")>>,
              rows |-> StaleRows("lev")]
        ELSE IF f \in {BS_CSV, MASTER_CSV, CONSOLIDATED_CSV, FINAL_CSV}
        THEN [exists |-> TRUE, cols |-> <<Col("nominal_gdp", "bs"), Col("year", "bs")>>,
              rows |-> StaleRows("bs")]
        ELSE [exists |-> TRUE, cols |-> <<>>, rows |-> <<>>]]

StaleDisks == {EmptyDisk, StaleDisk}

Ties == {"stable", "reversed"}

NoPrev == [set |-> FALSE, ret |-> "none", exc |-> NoExc, final_df |-> NoTable]

StartOfRun ==
    /\ pc = "validate"
    /\ ret = "none"
    /\ exc = NoExc
    /\ steps = <<>>
    /\ written = <<>>
    /\ inspected = <<>>
    /\ master = NoTable
    /\ consolidated = NoTable
    /\ final_df = NoTable

\* The order of rows of one year matters only where a year is repeated.
TiesFor(sh) ==
    IF \/ \E n \in Range(Datasets) \ {"Balance Sheet Analysis"} : Repeats(sh[n].rows)
       \/ LET p == sh["Balance Sheet Analysis"].rows
          IN  \E i, j \in 1..Len(p) :
                 i # j /\ parse_year(p[i]) # <<>> /\ parse_year(p[i]) = parse_year(p[j])
    THEN Ties ELSE {"stable"}

Init ==
    /\ sheets \in SheetsByStatus \cup SheetsByCols \cup SheetsByRows
    /\ tie \in TiesFor(sheets)
    /\ disk \in StaleDisks
    /\ diskAtStart = disk
    /\ run = 1
    /\ prev = NoPrev
    /\ StartOfRun

\* main is run again on the same spreadsheets, after anything may have happened
\* to the files under outputs/.
Rerun ==
    /\ pc = "done"
    /\ run < MaxRuns
    /\ run' = run + 1
    /\ prev' = [set |-> TRUE, ret |-> ret, exc |-> exc, final_df |-> final_df]
    /\ disk' \in StaleDisks \cup {disk}
    /\ diskAtStart' = disk'
    /\ pc' = "validate"
    /\ ret' = "none"
    /\ exc' = NoExc
    /\ steps' = <<>>
    /\ written' = <<>>
    /\ inspected' = <<>>
    /\ master' = NoTable
    /\ consolidated' = NoTable
    /\ final_df' = NoTable
    /\ UNCHANGED <<sheets, tie>>

Next ==
    \/ ValidateStep
    \/ HardStop
    \/ StandardizeStep
    \/ MergeStep
    \/ ConsolidateStep
    \/ FinalizeStep
    \/ QualityStep
    \/ DictionaryStep
    \/ Rerun

Spec == Init /\ [][Next]_vars

\* ------------------------------------------------- the panel steps alone
\* merge_master_panel, build_consolidated_panel and finalize_dataset on any
\* standardized CSV files, and finalize_dataset on any consolidated panel.
\* Column names besides year: every sub-sequence of a pool is tried.
BsPool == <<"crar", "bank_credit", "gdp_log", "period", "nominal_gdp">>

LevPool == <<"repos_level", "bank_credit", "gdp_log", "period_label">>

BcPool == <<"gdp_level", "gdp_log", "bank_credit_log">>

CsvFile(src, names, cells) ==
    [exists |-> TRUE,
     cols   |-> [i \in 1..Len(names) |-> Col(names[i], src)],
     rows   |-> [i \in 1..Len(cells) |-> Row(cells[i], src, i)]]

PanelDisk(bs, lev, bc) ==
    [StaleDisk EXCEPT ![BS_CSV] = bs, ![LEV_CSV] = lev, ![BC_CSV] = bc]

\* Files that differ in whether they exist, have a year column, and in their
\* other columns.
DisksByCols ==
    {PanelDisk(f[1], f[2], f[3]) :
     f \in ({CsvFile("bs", c \o <<"year">>, <<T2000, T2001>>) : c \in SubSeqs(BsPool)}
            \cup {CsvFile("bs", BsPool, <<T2000, T2001>>), NoFile})
           \X ({CsvFile("lev", <<"year">> \o c, <<T2000>>) : c \in SubSeqs(LevPool)}
               \cup {CsvFile("lev", LevPool, <<T2000>>), NoFile})
           \X ({CsvFile("bc", <<"year">> \o c, <<T2001>>) : c \in SubSeqs(BcPool)}
               \cup {CsvFile("bc", BcPool, <<T2001>>), NoFile})}

\* Files that differ in their rows.
DisksByRows ==
    {PanelDisk(CsvFile("bs", <<"period", "nominal_gdp", "year">>, r[1]),
               CsvFile("lev", <<"year", "repos_level">>, r[2]),
               CsvFile("bc", <<"year", "gdp_level">>, r[3])) :
     r \in SeqsUpTo(CsvYearCells, MaxRows)
           \X SeqsUpTo(CsvYearCells, MaxRows)
           \X SeqsUpTo(BcCsvYearCells, MaxRows)}

PanelTiesFor(d) ==
    IF \E f \in {BS_CSV, LEV_CSV, BC_CSV} :
          Repeats([i \in 1..Len(d[f].rows) |-> d[f].rows[i].year])
    THEN Ties ELSE {"stable"}

\* Consolidated panels handed to finalize_dataset.
PanelsByRows ==
    {[cols |-> <<Col("year", "bs"), Col("nominal_gdp", "bs"), Col("repos_level", "lev")>>,
      rows |-> [i \in 1..Len(y) |-> Row(y[i], "bs", i)]] :
     y \in SeqsUpTo({2000, 2001}, MaxRows)}

InitPanel ==
    /\ sheets \in {sh \in SheetsByStatus :
                      \A n \in Range(Datasets) : sh[n].status = "ok"}
    /\ run = 1
    /\ prev = NoPrev
    /\ ret = "none"
    /\ exc = NoExc
    /\ steps = <<>>
    /\ written = <<>>
    /\ inspected = <<>>
    /\ master = NoTable
    /\ final_df = NoTable
    /\ \/ /\ pc = "merge"
          /\ disk \in DisksByCols \cup DisksByRows
          /\ tie \in PanelTiesFor(disk)
          /\ consolidated = NoTable
       \/ /\ pc = "finalize"
          /\ disk = StaleDisk
          /\ tie \in Ties
          /\ consolidated \in PanelsByRows
    /\ diskAtStart = disk

NextPanel ==
    \/ MergeStep
    \/ ConsolidateStep
    \/ FinalizeStep

SpecPanel == InitPanel /\ [][NextPanel]_vars

\* ------------------------------------------- the year of a period label
\* Period labels with one year, with two, with a year inside a longer run of
\* digits, with no year, and a blank cell.
YearLabels ==
    {<<"F", "Y", "2", "0", "0", "0">>,
     <<"2", "0", "0", "1", "-", "0", "2">>,
     <<"1", "9", "9", "9", "/", "2", "0", "0", "0">>,
     <<"2", "1", "9", "9", "8">>,
     <<"1", "8", "9", "9">>,
     TText,
     <<>>}

\* Readable spreadsheets whose balance sheet has a period column or none, and
\* any of the labels in its rows.
SheetsByLabels ==
    {[n \in Range(Datasets) |->
        IF n = "Business Cycle Link" THEN Sheet("ok", BcSheetCols, <<T2000>>)
        ELSE IF n = "Leverage Analysis" THEN Sheet("ok", <<"years", "repos">>, <<T2000>>)
        ELSE Sheet("ok", c, r)] :
     c \in {<<"period", "nominal_gdp">>, <<"nominal_gdp", "year">>},
     r \in SeqsUpTo(YearLabels, MaxRows)}

InitYear ==
    /\ sheets \in SheetsByLabels
    /\ tie \in TiesFor(sheets)
    /\ disk = EmptyDisk
    /\ diskAtStart = disk
    /\ run = 1
    /\ prev = NoPrev
    /\ StartOfRun

\* main up to write_standardized.
NextYear ==
    \/ ValidateStep
    \/ HardStop
    \/ StandardizeStep

SpecYear == InitYear /\ [][NextYear]_vars

\* ------------------------------------------------- the analysis scripts
\* src/analysis/02_baseline_model.py, 03_make_figures.py and
\* 04_robustness_models.py read outputs/processed/final_panel.csv.  For them
\* a table is [cols, rows] with cols the column names and a row a record
\* from column name to cell; a cell of the file is a text (a blank cell is
\* the empty text), a cell after pd.to_numeric is <<n>> or <<>> for NaN.
to_numeric(cell) == IF IsNumericText(cell) THEN <<IntOfText(cell)>> ELSE <<>>

\* pd.read_csv(DATA)
read_csv(file) == [cols |-> file.cols, rows |-> file.rows]

Y_COL == "log_bank_credit_growth"

CANDIDATES ==
    <<"capital_surplus_ratio", "crar", "nominal_gdp_growth", "net_npa_ratio",
      "change_in_rw", "leverage_ratiotrc_to_ta">>

\* The keys of SPECS, in the order of the dict.
SpecNames ==
    <<"spec_1_baseline", "spec_2_replace_capital_with_crar", "spec_3_core_risk_only",
      "spec_4_drop_gdp_control">>

SPECS ==
    [name \in Range(SpecNames) |->
        CASE name = "spec_1_baseline" ->
                 <<"capital_surplus_ratio", "nominal_gdp_growth", "net_npa_ratio",
                   "change_in_rw", "leverage_ratiotrc_to_ta">>
          [] name = "spec_2_replace_capital_with_crar" ->
                 <<"crar", "nominal_gdp_growth", "net_npa_ratio", "change_in_rw",
                   "leverage_ratiotrc_to_ta">>
          [] name = "spec_3_core_risk_only" ->
                 <<"net_npa_ratio", "change_in_rw", "nominal_gdp_growth">>
          [] name = "spec_4_drop_gdp_control" ->
                 <<"capital_surplus_ratio", "net_npa_ratio", "change_in_rw",
                   "leverage_ratiotrc_to_ta">>]

BASELINE_CSV == "baseline_regression.csv"

METRICS_CSV == "robustness_model_metrics.csv"

COMPARISON_CSV == "robustness_comparison_table.csv"

\* OUT_TBL / f"{spec_name}.csv"
TableFile(spec_name) == spec_name \o ".csv"

\* The rows of data (by their number in df) that pd.concat([y, X],
\* axis=1).dropna() keeps: those whose cells in y and in every column of X
\* are numbers.
dropna(df, used) ==
    SelectIdx([i \in 1..Len(df.rows) |-> i],
              {i \in 1..Len(df.rows) :
                  \A k \in 1..Len(used) : to_numeric(df.rows[i][used[k]]) # <<>>})

\* A column of the sample that is a constant other than zero.
IsNonzeroConst(df, sample, col) ==
    LET vals == {to_numeric(df.rows[sample[k]][col])[1] : k \in 1..Len(sample)}
    IN  Cardinality(vals) = 1 /\ 0 \notin vals

\* sm.add_constant(X), with its defaults prepend=True, has_constant="skip":
\* the column const comes first, and is left out when X already has a
\* column that is a constant other than zero.
add_constant(df, sample, x_cols) ==
    IF \E k \in 1..Len(x_cols) : IsNonzeroConst(df, sample, x_cols[k])
    THEN x_cols ELSE <<"const">> \o x_cols

\* fit_ols that drops the rows with a missing regressor only.
fit_ols_regressors_only(df, y_col, x_cols) ==
    LET data == dropna(df, x_cols)
    IN  IF data = <<>> THEN [err |-> "ValueError", sample |-> <<>>, terms |-> <<>>]
        ELSE [err |-> "none", sample |-> data, terms |-> add_constant(df, data, x_cols)]

\* fit_ols(df, y_col, x_cols): the rows the model is fitted on and the terms
\* of the model.  The library raises ValueError on a sample without rows.
fit_ols(df, y_col, x_cols) ==
    LET data == dropna(df, <<y_col>> \o x_cols)
    IN  IF data = <<>> THEN [err |-> "ValueError", sample |-> <<>>, terms |-> <<>>]
        ELSE [err |-> "none", sample |-> data, terms |-> add_constant(df, data, x_cols)]

\* tidy_params(model).to_csv(out_file): one row per term.
tidy_params(model) ==
    [exists |-> TRUE,
     cols   |-> <<"term", "coef", "robust_se", "p_value", "ci_low", "ci_high">>,
     rows   |-> model.terms]

\* cols_ok of a specification: its regressors that are columns of df.
cols_ok(df, spec_name) ==
    LET cols == SPECS[spec_name]
    IN  SelectIdx(cols, {k \in 1..Len(cols) : cols[k] \in Range(df.cols)})

\* The keys of specs_filtered, in the order of the dict.
specs_filtered(df) ==
    SelectIdx(SpecNames, {k \in 1..Len(SpecNames) : cols_ok(df, SpecNames[k]) # <<>>})

\* results_meta after the specifications in fitted have been fitted.
results_meta(df, fitted) ==
    [k \in 1..Len(fitted) |->
        [spec  |-> fitted[k],
         n_obs |-> Len(fit_ols(df, Y_COL, cols_ok(df, fitted[k])).sample)]]

\* The place of a specification name in the order of strings.
SpecRank(name) == SetMin({k \in 1..Len(SpecNames) : SpecNames[k] = name})

RECURSIVE SortBySpec(_)
SortBySpec(meta) ==
    IF meta = <<>> THEN <<>>
    ELSE LET sorted == SortBySpec(Front(meta))
             r == Last(meta)
             k == Cardinality({i \in 1..Len(sorted) :
                                  SpecRank(sorted[i].spec) <= SpecRank(r.spec)})
         IN  SubSeq(sorted, 1, k) \o <<r>> \o SubSeq(sorted, k + 1, Len(sorted))

\* pd.DataFrame(results_meta).sort_values("spec"): a frame made of an empty
\* list has no column spec, and sort_values raises KeyError.
metrics_table(meta) ==
    IF meta = <<>> THEN [err |-> "KeyError", file |-> NoFile]
    ELSE [err  |-> "none",
          file |-> [exists |-> TRUE,
                    cols   |-> <<"spec", "n_obs", "r2", "adj_r2", "aic", "bic">>,
                    rows   |-> SortBySpec(meta)]]

\* The specifications this run of 04 has fitted, in the order of the loop.
Fitted == SelectIdx(steps, {k \in 1..Len(steps) : steps[k] \in Range(SpecNames)})

\* The specifications the loop of 04 has still to fit.
Todo ==
    LET f == specs_filtered(final_df)
    IN  SelectIdx(f, {k \in 1..Len(f) : f[k] \notin Range(steps)})

\* 04 main, up to the end of the first loop.
RobustLoad ==
    /\ pc = "robust_load"
    /\ steps' = Append(steps, "robust_load")
    /\ IF ~disk[FINAL_CSV].exists
       THEN Raise("FileNotFoundError", "robust_load") /\ UNCHANGED final_df
       ELSE IF Y_COL \notin Range(disk[FINAL_CSV].cols)
       THEN Raise("KeyError", "robust_load") /\ UNCHANGED final_df
       ELSE /\ final_df' = read_csv(disk[FINAL_CSV])
            /\ pc' = IF specs_filtered(final_df') = <<>>
                     THEN "robust_metrics" ELSE "robust_fit"
            /\ UNCHANGED <<ret, exc>>
    /\ UNCHANGED <<inputs, master, consolidated, inspected, disk, written>>

\* One turn of the second loop of 04 main.
RobustFit ==
    /\ pc = "robust_fit"
    /\ LET spec_name == Todo[1]
           model == fit_ols(final_df, Y_COL, cols_ok(final_df, spec_name))
       IN  /\ steps' = Append(steps, spec_name)
           /\ IF model.err # "none"
              THEN Raise(model.err, spec_name) /\ UNCHANGED <<disk, written>>
              ELSE /\ disk' = [disk EXCEPT ![TableFile(spec_name)] = tidy_params(model)]
                   /\ written' = Append(written, TableFile(spec_name))
                   /\ pc' = IF Len(Todo) = 1 THEN "robust_metrics" ELSE "robust_fit"
                   /\ UNCHANGED <<ret, exc>>
    /\ UNCHANGED <<inputs, frames, inspected>>

\* Write model comparison metrics
RobustMetrics ==
    /\ pc = "robust_metrics"
    /\ steps' = Append(steps, "robust_metrics")
    /\ LET t == metrics_table(results_meta(final_df, Fitted))
       IN  IF t.err # "none"
           THEN Raise(t.err, "robust_metrics") /\ UNCHANGED <<disk, written>>
           ELSE /\ disk' = [disk EXCEPT ![METRICS_CSV] = t.file]
                /\ written' = Append(written, METRICS_CSV)
                /\ pc' = "robust_comparison"
                /\ UNCHANGED <<ret, exc>>
    /\ UNCHANGED <<inputs, frames, inspected>>

\* Write a combined comparison table
RobustComparison ==
    /\ pc = "robust_comparison"
    /\ steps' = Append(steps, "robust_comparison")
    /\ IF Fitted # <<>>
       THEN /\ disk' = [disk EXCEPT
                           ![COMPARISON_CSV] =
                               [exists |-> TRUE, cols |-> Fitted, rows |-> <<>>]]
            /\ written' = Append(written, COMPARISON_CSV)
       ELSE UNCHANGED <<disk, written>>
    /\ pc' = "done"
    /\ ret' = "0"
    /\ UNCHANGED <<inputs, frames, exc, inspected>>

\* --------------------------------------------------- 02_baseline_model.py
\* The columns of X in 02 main.
BaselineX ==
    <<"capital_surplus_ratio", "nominal_gdp_growth", "net_npa_ratio", "change_in_rw",
      "leverage_ratiotrc_to_ta">>

\* 02 main from y = df[...] to the fit: KeyError on a missing column, else
\* the rows the model is fitted on and the terms of the model.
baseline_model(df) ==
    IF \E c \in {"log_bank_credit_growth"} \cup Range(BaselineX) : c \notin Range(df.cols)
    THEN [err |-> "KeyError", sample |-> <<>>, terms |-> <<>>]
    ELSE LET data == dropna(df, <<"log_bank_credit_growth">> \o BaselineX)
         IN  IF data = <<>> THEN [err |-> "ValueError", sample |-> <<>>, terms |-> <<>>]
             ELSE [err    |-> "none",
                   sample |-> data,
                   terms  |-> add_constant(df, data, BaselineX)]

\* 02 main: read_csv raises FileNotFoundError when the file is missing.
Baseline ==
    /\ pc = "baseline"
    /\ steps' = Append(steps, "baseline")
    /\ IF ~disk[FINAL_CSV].exists
       THEN Raise("FileNotFoundError", "baseline") /\ UNCHANGED <<final_df, disk, written>>
       ELSE /\ final_df' = read_csv(disk[FINAL_CSV])
            /\ LET model == baseline_model(final_df')
               IN  IF model.err # "none"
                   THEN Raise(model.err, "baseline") /\ UNCHANGED <<disk, written>>
                   ELSE /\ disk' = [disk EXCEPT
                                       ![BASELINE_CSV] =
                                           [exists |-> TRUE,
                                            cols   |-> <<"Coef.", "Std.Err.", "z", "P>|z|",
                                                         "[0.025", "0.975]">>,
                                            rows   |-> model.terms]]
                        /\ written' = Append(written, BASELINE_CSV)
                        /\ pc' = "done"
                        /\ ret' = "0"
                        /\ UNCHANGED exc
    /\ UNCHANGED <<inputs, master, consolidated, inspected>>

\* ---------------------------------------------------- 03_make_figures.py
FIG1 == "01_credit_log_growth.png"

FIG2 == "02_capital_surplus_ratio.png"

FIG3 == "03_scatter_capital_surplus_vs_credit_growth.png"

FIG4 == "04_npa_ratio.png"

\* The columns whose presence main asks for before it draws a figure.
FigureNeeds_either(filename) ==
    CASE filename = FIG1 -> {"log_bank_credit_growth"}
      [] filename = FIG2 -> {"capital_surplus_ratio"}
      [] filename = FIG3 -> {"capital_surplus_ratio"}
      [] filename = FIG4 -> {"net_npa_ratio"}

FigureNeeds(filename) ==
    CASE filename = FIG1 -> {"log_bank_credit_growth"}
      [] filename = FIG2 -> {"capital_surplus_ratio"}
      [] filename = FIG3 -> {"capital_surplus_ratio", "log_bank_credit_growth"}
      [] filename = FIG4 -> {"net_npa_ratio"}

\* The order of the figures in main.
StepAfterFigure(step) ==
    CASE step = "figure1" -> "figure2"
      [] step = "figure2" -> "figure3"
      [] step = "figure3" -> "figure4"
      [] step = "figure4" -> "done"

\* df after "Ensure 'year' numeric": the rows whose year is a number, with the
\* year as an integer, sorted by year.
numeric_year(df, kind) ==
    LET kept == SelectIdx(df.rows, {i \in 1..Len(df.rows) : to_numeric(df.rows[i].year) # <<>>})
    IN  [cols |-> df.cols,
         rows |-> sort_values([i \in 1..Len(kept) |->
                                  [kept[i] EXCEPT !.year = to_numeric(kept[i].year)[1]]],
                              kind)]

\* d = df[[x, y]] with y made numeric (and x, in the scatter) and the rows
\* with a NaN dropped, as save_line and save_scatter draw it: the points.
Points(df, x, y) ==
    LET num(i, c) == IF c = "year" THEN <<df.rows[i].year>> ELSE to_numeric(df.rows[i][c])
        kept == SelectIdx([i \in 1..Len(df.rows) |-> i],
                          {i \in 1..Len(df.rows) : num(i, x) # <<>> /\ num(i, y) # <<>>})
    IN  [exists |-> TRUE,
         cols   |-> <<x, y>>,
         rows   |-> [k \in 1..Len(kept) |-> <<num(kept[k], x)[1], num(kept[k], y)[1]>>]]

\* 03 main, up to the sort by year.
FiguresLoad ==
    /\ pc = "figures_load"
    /\ steps' = Append(steps, "figures_load")
    /\ IF ~disk[FINAL_CSV].exists
       THEN Raise("FileNotFoundError", "figures_load") /\ UNCHANGED final_df
       ELSE IF "year" \notin Range(disk[FINAL_CSV].cols)
       THEN Raise("KeyError", "figures_load") /\ UNCHANGED final_df
       ELSE /\ final_df' = numeric_year(read_csv(disk[FINAL_CSV]), tie)
            /\ pc' = "figure1"
            /\ UNCHANGED <<ret, exc>>
    /\ UNCHANGED <<inputs, master, consolidated, inspected, disk, written>>

\* One figure: drawn and saved when its columns are in df, skipped with a
\* warning otherwise.
Figure(step, filename, x, y) ==
    /\ pc = step
    /\ steps' = Append(steps, step)
    /\ IF FigureNeeds(filename) \subseteq Range(final_df.cols)
       THEN IF {x, y} \subseteq Range(final_df.cols)
            THEN /\ disk' = [disk EXCEPT ![filename] = Points(final_df, x, y)]
                 /\ written' = Append(written, filename)
                 /\ pc' = StepAfterFigure(step)
                 /\ ret' = IF step = "figure4" THEN "0" ELSE ret
                 /\ UNCHANGED exc
            ELSE Raise("KeyError", step) /\ UNCHANGED <<disk, written>>
       ELSE /\ pc' = StepAfterFigure(step)
            /\ ret' = IF step = "figure4" THEN "0" ELSE ret
            /\ UNCHANGED <<disk, written, exc>>
    /\ UNCHANGED <<inputs, frames, inspected>>

\* Figure 1: Log credit growth over time
Figure1 == Figure("figure1", FIG1, "year", "log_bank_credit_growth")

\* Figure 2: Capital surplus ratio over time
Figure2 == Figure("figure2", FIG2, "year", "capital_surplus_ratio")

\* Figure 3: Scatter - capital surplus ratio vs log credit growth
Figure3 == Figure("figure3", FIG3, "capital_surplus_ratio", "log_bank_credit_growth")

\* Figure 4: NPA ratio over time (optional)
Figure4 == Figure("figure4", FIG4, "year", "net_npa_ratio")

\* ----------------------------------------- inputs of the analysis scripts
\* Columns a final panel may have: every sub-sequence is tried.
PanelPool == <<"year", Y_COL>> \o CANDIDATES

\* A row of a final panel with the given year cell and the same cell in every
\* other column, and a row with one cell replaced.
PanelRow(year, cell) == [c \in Range(PanelPool) |-> IF c = "year" THEN year ELSE cell]

WithCell(row, col, cell) == [row EXCEPT ![col] = cell]

\* Rows of a final panel: complete rows with different numbers, rows with a
\* blank or a text in one column, rows whose year is no number.
PanelRows ==
    {PanelRow(T2000, <<"1">>), PanelRow(T2001, <<"2">>), PanelRow(T2001, <<"0">>),
     WithCell(PanelRow(T2000, <<"1">>), Y_COL, <<>>),
     WithCell(PanelRow(T2001, <<"2">>), "capital_surplus_ratio", TText),
     WithCell(PanelRow(T2001, <<"1">>), "crar", <<>>),
     PanelRow(TText, <<"1">>)}

\* The final panel with the given columns and rows.
PanelFile(cols, rows) ==
    [exists |-> TRUE,
     cols   |-> cols,
     rows   |-> [i \in 1..Len(rows) |-> [c \in Range(cols) |-> rows[i][c]]]]

\* Final panels that differ in whether they exist and in their columns, and
\* final panels that differ in their rows.
FinalPanels ==
    {NoFile}
    \cup {PanelFile(c, <<PanelRow(T2000, <<"1">>), PanelRow(T2001, <<"2">>)>>) :
          c \in SubSeqs(PanelPool)}
    \cup {PanelFile(PanelPool, r) : r \in SeqsUpTo(PanelRows, MaxRows)}

AnalysisFiles ==
    {FINAL_CSV, BASELINE_CSV, METRICS_CSV, COMPARISON_CSV}
    \cup {TableFile(SpecNames[k]) : k \in 1..Len(SpecNames)}
    \cup {FIG1, FIG2, FIG3, FIG4}

\* The scripts that can be run, by the first step of their main.
Scripts == {"robust_load", "figures_load", "baseline"}

\* The order of rows of one year matters only to the script that sorts, and
\* only where a year is repeated.
AnalysisTiesFor(file, script) ==
    IF script = "figures_load" /\ "year" \in Range(file.cols)
       /\ Repeats([i \in 1..Len(file.rows) |-> to_numeric(file.rows[i].year)])
    THEN Ties ELSE {"stable"}

InitAnalysis ==
    /\ sheets \in {sh \in SheetsByStatus :
                      \A n \in Range(Datasets) : sh[n].status = "ok"}
    /\ pc \in Scripts
    /\ disk \in {[f \in AnalysisFiles |-> IF f = FINAL_CSV THEN p ELSE NoFile] :
                 p \in FinalPanels}
    /\ diskAtStart = disk
    /\ run = 1
    /\ prev = NoPrev
    /\ ret = "none"
    /\ exc = NoExc
    /\ steps = <<>>
    /\ written = <<>>
    /\ inspected = <<>>
    /\ master = NoTable
    /\ consolidated = NoTable
    /\ final_df = NoTable
    /\ tie \in AnalysisTiesFor(disk[FINAL_CSV], pc)

NextAnalysis ==
    \/ RobustLoad
    \/ RobustFit
    \/ RobustMetrics
    \/ RobustComparison
    \/ FiguresLoad
    \/ Figure1
    \/ Figure2
    \/ Figure3
    \/ Figure4
    \/ Baseline

SpecAnalysis == InitAnalysis /\ [][NextAnalysis]_vars

\* ------------------------------------------------------------ properties
Entered(step) == step \in Range(steps)

\* The step was entered and did not raise.
Returned(step) == Entered(step) /\ ~(ret = "raise" /\ exc.step = step)

Wrote(f) == f \in Range(written)

Untouched(f) == ~Wrote(f) /\ disk[f] = diskAtStart[f]

\* The years of the rows of a CSV file whose year cell is a number.
NumericYears(file) ==
    {IntOfText(file.rows[i].year) :
        i \in {j \in 1..Len(file.rows) : IsNumericText(file.rows[j].year)}}

\* The number of the first row of a CSV file whose year is y.
FirstRowOf(file, y) ==
    SetMin({i \in 1..Len(file.rows) :
               IsNumericText(file.rows[i].year) /\ IntOfText(file.rows[i].year) = y})

StdFiles == <<BS_CSV, LEV_CSV, BC_CSV>>

\* C1: one row per year.  Whenever final_panel.csv has been written, no two
\* rows of the final panel (in memory and in the file) have the same year,
\* whatever the standardized tables held; and when finalize_dataset is handed
\* a consolidated panel with a duplicated year it raises ValueError and
\* final_panel.csv is neither written nor changed.
C1_OneRowPerYear ==
    /\ Wrote(FINAL_CSV) =>
          /\ UniqueYears(final_df.rows)
          /\ UniqueYears(disk[FINAL_CSV].rows)
          /\ Returned("finalize")
    /\ Returned("finalize") => Wrote(FINAL_CSV)
    /\ (Entered("finalize") /\ HasDuplicatedYear(consolidated.rows)) =>
          /\ ret = "raise"
          /\ exc = [kind |-> "ValueError", step |-> "finalize"]
          /\ Untouched(FINAL_CSV)

\* A final panel written from standardized tables that all repeat a year.
C1_Witness ==
    /\ Wrote(FINAL_CSV)
    /\ Entered("merge")
    /\ final_df.rows # <<>>
    /\ \A k \in 1..Len(StdFiles) :
          Cardinality(NumericYears(disk[StdFiles[k]])) < Len(disk[StdFiles[k]].rows)

\* C4: left join on the year key.  The years of the master panel are exactly
\* the numeric years of the balance-sheet file, once each; a master row has
\* leverage (business-cycle) cells exactly when its year is in the leverage
\* (business-cycle) file, so a year only those files have is not in the panel
\* and a balance-sheet year they lack is kept with their cells missing.
C4_LeftJoinOnYear ==
    Returned("merge") =>
        /\ Years(master.rows) = NumericYears(disk[BS_CSV])
        /\ UniqueYears(master.rows)
        /\ \A i \in 1..Len(master.rows) :
              LET r == master.rows[i]
              IN  /\ r.bs # NoRow
                  /\ r.lev # NoRow <=> r.year \in NumericYears(disk[LEV_CSV])
                  /\ r.bc # NoRow <=> r.year \in NumericYears(disk[BC_CSV])
        /\ disk[MASTER_CSV] = ToCsv(master)

\* The leverage file has a year the balance sheet lacks, and lacks one it has.
C4_Witness ==
    /\ Returned("merge")
    /\ NumericYears(disk[LEV_CSV]) \ NumericYears(disk[BS_CSV]) # {}
    /\ \E i \in 1..Len(master.rows) :
          master.rows[i].lev = NoRow /\ master.rows[i].bc # NoRow

\* Names of GDP and bank-credit columns in the three sources.
GdpCreditNames ==
    {"nominal_gdp", "log_nominal_gdp", "nominal_gdp_growth", "bank_credit",
     "log_bank_credit", "log_bank_credit_growth",
     "gdp_level", "gdp_growth", "gdp_log", "gdp_log_growth",
     "bank_credit_growth", "bank_credit_level", "bank_credit_log",
     "bank_credit_log_growth"}

BsGdpCreditNames ==
    {"nominal_gdp", "log_nominal_gdp", "nominal_gdp_growth", "bank_credit",
     "log_bank_credit", "log_bank_credit_growth"}

\* C5: GDP and credit come only from the balance sheet.  The consolidated
\* panel has no GDP or bank-credit column that came from the leverage or the
\* business-cycle table, under its own name or with the merge's suffix, and
\* it keeps every balance-sheet GDP and credit column of the master panel.
C5_OnlyBalanceSheetGdpCredit ==
    Returned("consolidate") =>
        /\ \A i \in 1..Len(consolidated.cols) :
              LET c == consolidated.cols[i]
              IN  ~(c.src \in {"lev", "bc"} /\ c.orig \in GdpCreditNames)
        /\ \A i \in 1..Len(master.cols) :
              LET c == master.cols[i]
              IN  (c.src = "bs" /\ c.name \in BsGdpCreditNames) =>
                     \E j \in 1..Len(consolidated.cols) : consolidated.cols[j] = c

\* C6: load_csv raises FileNotFoundError exactly on a file that does not
\* exist and KeyError exactly on one that exists without a year column; when
\* any of the three loads of merge_master_panel raises, the step raises that
\* error and master_panel.csv is neither written nor changed.
C6_LoadErrorsStopMerge ==
    /\ \A k \in 1..Len(StdFiles) :
          LET f == disk[StdFiles[k]]
              e == load_csv(f, tie).err
          IN  /\ e = "FileNotFoundError" <=> ~f.exists
              /\ e = "KeyError" <=> (f.exists /\ ~HasCol(f.cols, "year"))
    /\ (Entered("merge") /\
        \E k \in 1..Len(StdFiles) : load_csv(disk[StdFiles[k]], tie).err # "none") =>
          /\ ret = "raise"
          /\ exc.step = "merge"
          /\ exc.kind \in {"FileNotFoundError", "KeyError"}
          /\ Untouched(MASTER_CSV)
          /\ master = NoTable

\* The first two files load and the third is missing.
C6_Witness ==
    /\ Entered("merge")
    /\ load_csv(disk[BS_CSV], tie).err = "none"
    /\ load_csv(disk[LEV_CSV], tie).err = "none"
    /\ ~disk[BC_CSV].exists
    /\ exc = [kind |-> "FileNotFoundError", step |-> "merge"]
    /\ disk[MASTER_CSV].exists

\* C8: de-duplication keeps the first row per year.  What load_csv returns
\* has one row per numeric year of the file and no other row, and the row of
\* a year is the first row of that year in the file; so are the rows the
\* master panel is joined from.
C8_KeepsFirstRowInFile ==
    Returned("merge") =>
        /\ \A k \in 1..Len(StdFiles) :
              LET f  == disk[StdFiles[k]]
                  df == load_csv(f, tie).df
              IN  /\ UniqueYears(df.rows)
                  /\ Years(df.rows) = NumericYears(f)
                  /\ \A i \in 1..Len(df.rows) :
                        df.rows[i].bs + df.rows[i].lev + df.rows[i].bc
                            = FirstRowOf(f, df.rows[i].year)
        /\ \A i \in 1..Len(master.rows) :
              master.rows[i].bs = FirstRowOf(disk[BS_CSV], master.rows[i].year)

\* The position of a front column in the front list (past it for the others).
FrontPos(name) ==
    IF name \in Range(FrontList)
    THEN SetMin({k \in 1..Len(FrontList) : FrontList[k] = name})
    ELSE Len(FrontList) + 1

\* How often a column occurs in a sequence of columns.
Count(cols, c) == Cardinality({i \in 1..Len(cols) : cols[i] = c})

\* C9: column order of the final panel.  The final panel has the columns of
\* the consolidated panel, each as often, in the same order (finalize_dataset
\* moves nothing); the front-list columns that are present come first, in the
\* order of the front list, year first; the others follow in the order the
\* master panel has them.
C9_FinalColumnOrder ==
    (Returned("finalize") /\ Entered("consolidate")) =>
        LET cols  == final_df.cols
            names == Names(cols)
            rest  == SelectIdx(cols, {i \in 1..Len(cols) :
                                         names[i] \notin Range(FrontList)})
            mcols == RenameCols(master.cols, {<<"period", "period_label">>})
            mrest == SelectIdx(mcols, {i \in 1..Len(mcols) :
                                          mcols[i].name \notin Range(FrontList)
                                                               \cup DropList})
        IN  /\ cols = consolidated.cols
            /\ disk[FINAL_CSV].cols = cols
            /\ \A i \in 1..Len(cols) :
                  Count(cols, cols[i]) = Count(consolidated.cols, cols[i])
            /\ names[1] = "year"
            /\ \A i, j \in 1..Len(names) :
                  i < j => FrontPos(names[i]) <= FrontPos(names[j])
            /\ \A k \in 1..Len(FrontList) :
                  HasCol(consolidated.cols, FrontList[k]) => HasCol(cols, FrontList[k])
            /\ rest = mrest

\* Front columns that the master panel holds in another order than the front
\* list, a merge suffix, and two columns behind the front.
C9_Witness ==
    /\ Returned("finalize")
    /\ Entered("consolidate")
    /\ \E i, j \in 1..Len(master.cols) :
          i < j /\ FrontPos(master.cols[j].name) < FrontPos(master.cols[i].name)
    /\ HasCol(final_df.cols, "gdp_log_bc")
    /\ Len(SelectIdx(final_df.cols,
                     {i \in 1..Len(final_df.cols) :
                         final_df.cols[i].name \notin Range(FrontList)})) >= 2

IsPrefix(s, t) == Len(s) <= Len(t) /\ s = SubSeq(t, 1, Len(s))

AnyMissing == \E n \in Range(Datasets) : sheets[n].status = "missing"

AnyUnreadable == \E n \in Range(Datasets) : sheets[n].status = "unreadable"

\* The datasets whose file exists, in the order of FILES.
Existing ==
    SelectIdx(Datasets, {i \in 1..Len(Datasets) : sheets[Datasets[i]].status # "missing"})

\* C2 as claimed: with an input missing, main writes the validation summary
\* and report and returns 1 having run no step after the validation, so that
\* no file under outputs/processed is written or changed; and it returns 1
\* only then.
C2_HardStopOnMissingInput ==
    /\ (AnyMissing /\ pc = "done") =>
          /\ ret = "1"
          /\ written = <<SUMMARY_CSV, REPORT_MD>>
          /\ steps = <<"validate">>
          /\ \A f \in ProcFiles : Untouched(f)
    /\ AnyMissing => pc \in {"validate", "hard_stop", "done"}
    /\ ret = "1" => AnyMissing

\* C2 amended: with an input missing, main runs no step after the validation
\* and no file under outputs/processed is written or changed; when every
\* spreadsheet that exists can be read it writes the validation summary and
\* report and returns 1, and when one cannot be read run_validation raises and
\* neither validation file is written; main returns 1 only with an input
\* missing.
C2_HardStopWhenReadable ==
    /\ (AnyMissing /\ pc = "done") =>
          /\ steps = <<"validate">>
          /\ \A f \in ProcFiles : Untouched(f)
          /\ IF AnyUnreadable
             THEN /\ ret = "raise"
                  /\ exc = [kind |-> "ExcelError", step |-> "validate"]
                  /\ written = <<>>
                  /\ Untouched(SUMMARY_CSV)
                  /\ Untouched(REPORT_MD)
             ELSE /\ ret = "1"
                  /\ written = <<SUMMARY_CSV, REPORT_MD>>
    /\ AnyMissing => pc \in {"validate", "hard_stop", "done"}
    /\ ret = "1" => AnyMissing

\* main has returned 1 and left the files of an earlier run as they were.
C2_Witness ==
    /\ pc = "done"
    /\ ret = "1"
    /\ sheets[Datasets[1]].status = "ok"
    /\ sheets[Datasets[3]].status = "missing"
    /\ diskAtStart = StaleDisk
    /\ \A f \in ProcFiles : disk[f] = StaleDisk[f]

ArtifactOrder ==
    <<SUMMARY_CSV, REPORT_MD, BC_CSV, LEV_CSV, BS_CSV, MASTER_CSV, CONSOLIDATED_CSV,
      FINAL_CSV, QUALITY_MD, DICTIONARY_CSV>>

\* The step that writes a file, and the files a step writes.
StepOf(f) ==
    CASE f \in {SUMMARY_CSV, REPORT_MD}   -> "validate"
      [] f \in {BC_CSV, LEV_CSV, BS_CSV}  -> "standardize"
      [] f = MASTER_CSV                   -> "merge"
      [] f = CONSOLIDATED_CSV             -> "consolidate"
      [] f = FINAL_CSV                    -> "finalize"
      [] f = QUALITY_MD                   -> "quality"
      [] f = DICTIONARY_CSV               -> "dictionary"

Artifacts(step) == {f \in OutFiles : StepOf(f) = step}

StepPos(step) == SetMin({k \in 1..Len(StepOrder) : StepOrder[k] = step})

\* C3: step ordering.  In a run the steps entered are an initial part of
\* validate, standardize, merge, consolidate, finalize, quality, dictionary,
\* each once; the files written are an initial part of the files in that
\* order; a step is entered only with the files of every step before it
\* written; a file is written only by a step that did not raise, and once a
\* step has raised no file of that or a later step is written.
C3_StepOrdering ==
    /\ IsPrefix(steps, StepOrder)
    /\ IsPrefix(written, ArtifactOrder)
    /\ \A f \in Range(written) : Returned(StepOf(f))
    /\ \A i \in 1..(Len(steps) - 1) : Artifacts(steps[i]) \subseteq Range(written)
    /\ ret = "raise" =>
          /\ exc.step = Last(steps)
          /\ pc = "done"
          /\ \A f \in Range(written) : StepPos(StepOf(f)) < StepPos(exc.step)

\* The quality report raised after the three panels were written.
C3_Witness ==
    /\ ret = "raise"
    /\ exc.step = "quality"
    /\ Wrote(FINAL_CSV)
    /\ diskAtStart = StaleDisk
    /\ disk[DICTIONARY_CSV] = StaleDisk[DICTIONARY_CSV]

\* C7: determinism.  A run of main on the same spreadsheets ends as the run
\* before it did, with the same final panel (rows, columns, order), whatever
\* the files under outputs/ were when either run started; the merge step runs
\* only with the three standardized files written in this run, holding what
\* this run's standardize functions returned.
C7_SameInputsSameFinalPanel ==
    /\ (pc = "done" /\ prev.set) =>
          /\ ret = prev.ret
          /\ exc = prev.exc
          /\ final_df = prev.final_df
          /\ ret = "0" => disk[FINAL_CSV] = ToCsv(final_df)
    /\ Entered("merge") =>
          /\ \A k \in 1..Len(StdFiles) : Wrote(StdFiles[k])
          /\ disk[BC_CSV] = ToCsv(standardize_business_cycle(sheets[Datasets[1]], tie).df)
          /\ disk[LEV_CSV] = ToCsv(standardize_leverage(sheets[Datasets[2]], tie).df)
          /\ disk[BS_CSV] = ToCsv(standardize_balance_sheet(sheets[Datasets[3]], tie).df)

\* A second run that started on other files than the first and wrote a final
\* panel from sheets that repeat a year.
C7_Witness ==
    /\ pc = "done"
    /\ prev.set
    /\ ret = "0"
    /\ run = 2
    /\ diskAtStart = StaleDisk
    /\ tie = "reversed"
    /\ Len(final_df.rows) >= 1

\* C10: validation report.  When run_validation returns, the summary has one
\* row per dataset in the order of FILES, MISSING exactly for the files that
\* do not exist and OK for the others, and every file that exists was
\* inspected, also after a missing one; it raises only on a file that exists
\* and cannot be read, never on a missing one.
C10_ValidationSummary ==
    /\ Returned("validate") =>
          LET rows == disk[SUMMARY_CSV].rows
          IN  /\ Len(rows) = Len(Datasets)
              /\ \A i \in 1..Len(rows) :
                    /\ rows[i].dataset = Datasets[i]
                    /\ rows[i].status = "MISSING" <=> sheets[Datasets[i]].status = "missing"
                    /\ rows[i].status = "OK" <=> sheets[Datasets[i]].status # "missing"
              /\ inspected = Existing
              /\ Wrote(SUMMARY_CSV)
              /\ Wrote(REPORT_MD)
    /\ (Entered("validate") /\ ~Returned("validate")) =>
          /\ inspected # <<>>
          /\ sheets[Last(inspected)].status = "unreadable"
          /\ IsPrefix(inspected, Existing)
    /\ (Entered("validate") /\ ~AnyUnreadable) => Returned("validate")

\* The first file is missing and the two after it were inspected.
C10_Witness ==
    /\ Returned("validate")
    /\ sheets[Datasets[1]].status = "missing"
    /\ inspected = <<Datasets[2], Datasets[3]>>
    /\ disk[SUMMARY_CSV].rows[3].status = "OK"

\* C11 (as claimed): 04 main raises FileNotFoundError when final_panel.csv is
\* missing and KeyError when log_bank_credit_growth is missing, before any
\* table is written; otherwise, for every set of regressor columns in the
\* data, every specification with a regressor in the data is fitted on those
\* of its regressors that exist and gets its file, a specification with none
\* gets no file, and robustness_model_metrics.csv is written with one row per
\* fitted specification, sorted by specification name.  Runs in which the
\* library cannot fit a specification (no complete row) are left aside.
RobustDone == pc = "done" /\ "robust_load" \in Range(steps)

FitRaised == ret = "raise" /\ exc.step \in Range(SpecNames)

C11_MetricsForEveryRegressorSet ==
    RobustDone /\ ~FitRaised =>
        LET file == disk[FINAL_CSV]
        IN  IF ~file.exists
            THEN ret = "raise" /\ exc.kind = "FileNotFoundError" /\ written = <<>>
            ELSE IF Y_COL \notin Range(file.cols)
            THEN ret = "raise" /\ exc.kind = "KeyError" /\ written = <<>>
            ELSE /\ ret = "0"
                 /\ \A k \in 1..Len(SpecNames) :
                       LET name == SpecNames[k]
                           have == Range(SPECS[name]) \cap Range(file.cols)
                       IN  IF have = {}
                           THEN ~Wrote(TableFile(name))
                           ELSE /\ Wrote(TableFile(name))
                                /\ Range(disk[TableFile(name)].rows) \ {"const"} = have
                 /\ Wrote(METRICS_CSV)
                 /\ LET rows == disk[METRICS_CSV].rows
                    IN  /\ Len(rows) = Len(Fitted)
                        /\ {rows[i].spec : i \in 1..Len(rows)} = Range(Fitted)
                        /\ \A i, j \in 1..Len(rows) :
                              i < j => SpecRank(rows[i].spec) < SpecRank(rows[j].spec)

\* C12: 03 main raises FileNotFoundError when final_panel.csv is missing and
\* KeyError when it has no year column, before any figure is written;
\* otherwise it ends normally, each of the four figures is written exactly
\* when every column it needs is in the data (figure 3 needs both
\* capital_surplus_ratio and log_bank_credit_growth), a skipped figure does
\* not stop the later ones, and the figures are written in the order 1..4.
FigureOrder == <<FIG1, FIG2, FIG3, FIG4>>

FigurePos(f) == SetMin({k \in 1..Len(FigureOrder) : FigureOrder[k] = f})

FiguresRun == "figures_load" \in Range(steps)

C12_FiguresWhenColumnsPresent ==
    FiguresRun =>
        LET file == disk[FINAL_CSV]
            has(c) == c \in Range(file.cols)
        IN  /\ \A i, j \in 1..Len(written) :
                  i < j => FigurePos(written[i]) < FigurePos(written[j])
            /\ pc = "done" =>
                  IF ~file.exists
                  THEN ret = "raise" /\ exc.kind = "FileNotFoundError" /\ written = <<>>
                  ELSE IF ~has("year")
                  THEN ret = "raise" /\ exc.kind = "KeyError" /\ written = <<>>
                  ELSE /\ ret = "0"
                       /\ Wrote(FIG1) <=> has("log_bank_credit_growth")
                       /\ Wrote(FIG2) <=> has("capital_surplus_ratio")
                       /\ Wrote(FIG3) <=> has("capital_surplus_ratio")
                                          /\ has("log_bank_credit_growth")
                       /\ Wrote(FIG4) <=> has("net_npa_ratio")

\* A run that skipped figures 1 and 3 and drew figures 2 and 4.
C12_Witness ==
    /\ FiguresRun
    /\ pc = "done"
    /\ ret = "0"
    /\ written = <<FIG2, FIG4>>
    /\ "log_bank_credit_growth" \notin Range(disk[FINAL_CSV].cols)

\* C13: standardize_balance_sheet gives each row the year of the first
\* four-digit run starting with 19 or 20 in its period label, drops the rows
\* whose label is missing or has no such run, and returns the other rows,
\* each once, with integer years in ascending order; without a period column
\* it drops every row.
\* The run of four digits starting with 19 or 20 that starts first in label.
FirstYear(label, y) ==
    \E i \in 1..Len(label) :
        /\ YearMatchAt(label, i)
        /\ \A j \in 1..(i - 1) : ~YearMatchAt(label, j)
        /\ y = IntOfText(SubSeq(label, i, i + 3))

C13_YearFromPeriodLabel ==
    Returned("standardize") =>
        LET sheet  == sheets["Balance Sheet Analysis"]
            rows   == disk[BS_CSV].rows
            period == "period" \in Range(sheet.cols)
            dated  == {i \in 1..Len(sheet.rows) :
                          \E k \in 1..Len(sheet.rows[i]) : YearMatchAt(sheet.rows[i], k)}
        IN  /\ \A k \in 1..Len(rows) :
                  /\ rows[k].bs \in 1..Len(sheet.rows)
                  /\ IsNumericText(rows[k].year)
                  /\ FirstYear(sheet.rows[rows[k].bs], IntOfText(rows[k].year))
            /\ {rows[k].bs : k \in 1..Len(rows)} = IF period THEN dated ELSE {}
            /\ Len(rows) = Cardinality({rows[k].bs : k \in 1..Len(rows)})
            /\ \A k, l \in 1..Len(rows) :
                  k < l => IntOfText(rows[k].year) <= IntOfText(rows[l].year)

\* Two rows, FY2000 before 1999/2000, come out as 1999 then 2000.
C13_Witness ==
    /\ Returned("standardize")
    /\ sheets["Balance Sheet Analysis"].rows =
           <<<<"F", "Y", "2", "0", "0", "0">>,
             <<"1", "9", "9", "9", "/", "2", "0", "0", "0">>>>
    /\ Len(disk[BS_CSV].rows) = 2
    /\ disk[BS_CSV].rows[1].bs = 2
    /\ disk[BS_CSV].rows[1].year = <<"1", "9", "9", "9">>

\* The rows of df (by their number) in which log_bank_credit_growth and the
\* five baseline regressors are all numbers.
CompleteRows(df) ==
    SelectIdx([i \in 1..Len(df.rows) |-> i],
              {i \in 1..Len(df.rows) :
                  \A c \in {"log_bank_credit_growth", "capital_surplus_ratio",
                            "nominal_gdp_growth", "net_npa_ratio", "change_in_rw",
                            "leverage_ratiotrc_to_ta"} :
                      IsNumericText(df.rows[i][c])})

\* A final panel has been read that has the dependent variable and the five
\* baseline regressors.
BaselinePanelRead ==
    /\ final_df # NoTable
    /\ {"log_bank_credit_growth", "capital_surplus_ratio", "nominal_gdp_growth",
        "net_npa_ratio", "change_in_rw", "leverage_ratiotrc_to_ta"}
           \subseteq Range(final_df.cols)

\* C14 (as claimed): on every final panel with the dependent variable and the
\* five baseline regressors, 02 main and fit_ols for spec_1_baseline fit the
\* same rows, those in which all six columns are numbers, on the same five
\* regressors plus a constant.
C14_SameSamplePlusConstant ==
    BaselinePanelRead =>
        LET b == baseline_model(final_df)
            r == fit_ols(final_df, Y_COL, cols_ok(final_df, "spec_1_baseline"))
        IN  /\ b.sample = CompleteRows(final_df)
            /\ r.sample = CompleteRows(final_df)
            /\ b.err = r.err
            /\ b.err = "none" =>
                  /\ b.terms = <<"const", "capital_surplus_ratio", "nominal_gdp_growth",
                                 "net_npa_ratio", "change_in_rw", "leverage_ratiotrc_to_ta">>
                  /\ r.terms = b.terms

\* C14 (amended): the two scripts fit the same rows, those in which all six
\* columns are numbers, on the same terms: the five regressors, and before
\* them a constant unless one of the regressors is a constant other than
\* zero over those rows, in which case neither script adds one.  What each
\* script writes has these terms.
C14_SameSampleSameTerms ==
    BaselinePanelRead =>
        LET b == baseline_model(final_df)
            r == fit_ols(final_df, Y_COL, cols_ok(final_df, "spec_1_baseline"))
            five == <<"capital_surplus_ratio", "nominal_gdp_growth", "net_npa_ratio",
                      "change_in_rw", "leverage_ratiotrc_to_ta">>
            fixed == \E k \in 1..5 :
                        LET vals == {IntOfText(final_df.rows[i][five[k]]) :
                                        i \in Range(CompleteRows(final_df))}
                        IN  Cardinality(vals) = 1 /\ 0 \notin vals
        IN  /\ b.sample = CompleteRows(final_df)
            /\ r.sample = CompleteRows(final_df)
            /\ b.err = r.err
            /\ b.err = "none" =>
                  /\ b.terms = IF fixed THEN five ELSE <<"const">> \o five
                  /\ r.terms = b.terms
            /\ Wrote(BASELINE_CSV) => disk[BASELINE_CSV].rows = b.terms
            /\ Wrote(TableFile("spec_1_baseline")) =>
                  disk[TableFile("spec_1_baseline")].rows = r.terms

\* 02 has fitted its model on a panel of two rows of which it dropped one,
\* with a constant.
C14_Witness ==
    /\ Wrote(BASELINE_CSV)
    /\ Len(final_df.rows) = 2
    /\ CompleteRows(final_df) = <<2>>
    /\ disk[BASELINE_CSV].rows[1] = "const"

\* C15 (as claimed): once the three standardized tables have been written,
\* main goes on to write master_panel.csv, consolidated_panel.csv,
\* final_panel.csv, final_panel_quality.md and data_dictionary.csv and
\* returns 0, whatever the standardized tables hold: a balance-sheet table
\* without rows and tables with repeated years included.  Every step of main
\* either goes on to the next step or raises, so main gets there exactly
\* when a run that has written the three tables ends with all of this done.
Completed ==
    /\ ret = "0"
    /\ \A f \in {MASTER_CSV, CONSOLIDATED_CSV, FINAL_CSV, QUALITY_MD, DICTIONARY_CSV} :
          Wrote(f)

C15_CompletesOnceStandardized ==
    /\ Returned("standardize") =>
          \A n \in Range(Datasets) : sheets[n].status = "ok"
    /\ Returned("standardize") /\ pc = "done" => Completed

====
